---- MODULE Spec2Model ----
(***************************************************************************)
(* A model of `what` (lxhcaicai/whatis): the dispatcher of src/main.rs,    *)
(* its probes (src/datetime.rs, src/network.rs, src/system.rs,             *)
(* src/storage.rs), the Named wrapper of src/output.rs and the two         *)
(* projections (Display, Serialize) of CommandResult.                      *)
(*                                                                         *)
(* Strings are TLA+ strings; a string the code cuts at a character         *)
(* (splitn) is kept as a sequence of chunks in which every ':' is a chunk  *)
(* of its own.  The values the model draws hold no character that JSON     *)
(* escapes.                                                                *)
(***************************************************************************)
EXTENDS Integers, Sequences, FiniteSets, TLC

VARIABLES
    pc,         \* where main() is: "start", "dispatch", "render", "done"
    command,    \* cli.command: a member of Commands, or "None"
    format,     \* cli.format: "Json" or "Text"
    colorize,   \* whether the colored crate emits escape codes in this process
    probed,     \* what the probe read from the system: [cmd, raw]
    outcome,    \* how the probe ended: "none", "ok", "err", "panic"
    result,     \* the CommandResult main() holds
    events,     \* the calls main() has made, in order
    stdout,     \* what was printed to the success output, in order
    stderr,     \* what was printed to the error stream, in order
    exit_code,  \* the process's exit code, -1 while it runs
    runs,       \* how many invocations have been started
    prev,       \* the last finished json run: [command, probed, stdout]
    os_disks,   \* the disks the operating system reports
    disk_out,   \* what list_disks returned
    disk_text   \* the Display lines of the DiskInfo values rendered so far

vars == <<pc, command, format, colorize, probed, outcome, result, events,
          stdout, stderr, exit_code, runs, prev, os_disks, disk_out, disk_text>>

procVars == <<pc, command, format, colorize, probed, outcome, result, events,
              stdout, stderr, exit_code, runs, prev>>

diskVars == <<os_disks, disk_out, disk_text>>

----------------------------------------------------------------------------
(* Bounds of the model. *)

MaxNs == 3        \* nameservers in the system configuration
MaxCpus == 2      \* CPU entries the system reports
MaxRuns == 2      \* invocations of the program in one behaviour
MaxDisks == 2     \* disks the operating system reports
MaxBytes == 3     \* largest byte count a disk reports

----------------------------------------------------------------------------
(* Strings and numbers. *)

Digit(d) ==
    CASE d = 0 -> "0" [] d = 1 -> "1" [] d = 2 -> "2" [] d = 3 -> "3"
      [] d = 4 -> "4" [] d = 5 -> "5" [] d = 6 -> "6" [] d = 7 -> "7"
      [] d = 8 -> "8" [] d = 9 -> "9"

RECURSIVE DecNat(_)
DecNat(n) == IF n < 10 THEN Digit(n) ELSE DecNat(n \div 10) \o Digit(n % 10)

\* Display of an integer ({} in write!): decimal, unpadded, '-' when negative.
Dec(n) == IF n < 0 THEN "-" \o DecNat(0 - n) ELSE DecNat(n)

RECURSIVE Concat(_)
Concat(chunks) ==
    IF chunks = <<>> THEN "" ELSE Head(chunks) \o Concat(Tail(chunks))

\* chrono's zero-padded numeric items (%d, %U: width 2; %Y: width 4), as digits.
RECURSIVE FormatPadded(_, _)
FormatPadded(n, width) ==
    IF width = 0 THEN <<>>
    ELSE Append(FormatPadded(n \div 10, width - 1), n % 10)

\* str::parse of a digit string.
RECURSIVE parse_digits(_)
parse_digits(digits) ==
    IF digits = <<>> THEN 0
    ELSE 10 * parse_digits(SubSeq(digits, 1, Len(digits) - 1)) + digits[Len(digits)]

SeqsUpTo(S, n) == UNION {[1..k -> S] : k \in 0..n}

----------------------------------------------------------------------------
(* The colored crate: a styled string prints with escape codes only when   *)
(* the process colorizes.                                                  *)

StyleCode(style) ==
    CASE style = "bold" -> "1" [] style = "red" -> "31" [] style = "green" -> "32"
      [] style = "yellow" -> "33" [] style = "cyan" -> "36"
      [] style = "cyan_bold" -> "1;36" [] style = "bright_white" -> "97"

Styled(text, style, on) ==
    IF style = "plain" \/ ~on THEN text
    ELSE "<ESC>[" \o StyleCode(style) \o "m" \o text \o "<ESC>[0m"

\* A piece written to a Formatter: a literal of the format string, or a
\* field's value.
Lit(text) == [kind |-> "lit", text |-> text, style |-> "plain"]
Val(text, style) == [kind |-> "val", text |-> text, style |-> style]

\* write!(f, "{}", v.join(sep)): the entries with sep between them.
RECURSIVE join_fmt(_, _)
join_fmt(strs, sep) ==
    IF strs = <<>> THEN <<>>
    ELSE IF Len(strs) = 1 THEN <<Val(strs[1], "plain")>>
    ELSE <<Val(strs[1], "plain"), Lit(sep)>> \o join_fmt(Tail(strs), sep)

RECURSIVE Flatten(_, _)
Flatten(segs, on) ==
    IF segs = <<>> THEN ""
    ELSE Styled(Head(segs).text, Head(segs).style, on) \o Flatten(Tail(segs), on)

----------------------------------------------------------------------------
(* serde's data model and serde_json::to_string_pretty. *)

JStr(s) == [t |-> "str", s |-> s]
JNum(n) == [t |-> "num", n |-> n]
JMap(entries) == [t |-> "map", entries |-> entries]
JSeq(items) == [t |-> "seq", items |-> items]
JUndefined == [t |-> "undefined"]
Entry(k, v) == [k |-> k, v |-> v]

Undefined == "<undefined>"

RECURSIVE Indent(_)
Indent(n) == IF n = 0 THEN "" ELSE "  " \o Indent(n - 1)

Quote(s) == "\"" \o s \o "\""

RECURSIVE Pretty(_, _)
RECURSIVE PrettyEntries(_, _)
RECURSIVE PrettyItems(_, _)
PrettyEntries(entries, ind) ==
    IF entries = <<>> THEN ""
    ELSE Indent(ind) \o Quote(Head(entries).k) \o ": " \o Pretty(Head(entries).v, ind)
         \o (IF Len(entries) > 1 THEN ",\n" ELSE "\n")
         \o PrettyEntries(Tail(entries), ind)
PrettyItems(items, ind) ==
    IF items = <<>> THEN ""
    ELSE Indent(ind) \o Pretty(Head(items), ind)
         \o (IF Len(items) > 1 THEN ",\n" ELSE "\n")
         \o PrettyItems(Tail(items), ind)
Pretty(v, ind) ==
    CASE v.t = "str" -> Quote(v.s)
      [] v.t = "num" -> Dec(v.n)
      [] v.t = "map" ->
            IF v.entries = <<>> THEN "{}"
            ELSE "{\n" \o PrettyEntries(v.entries, ind + 1) \o Indent(ind) \o "}"
      [] v.t = "seq" ->
            IF v.items = <<>> THEN "[]"
            ELSE "[\n" \o PrettyItems(v.items, ind + 1) \o Indent(ind) \o "]"
      [] v.t = "undefined" -> Undefined

to_string_pretty(v) == Pretty(v, 0)

----------------------------------------------------------------------------
(* Results of a probe: anyhow's Ok / Err, or a panic inside the probe. *)

Ok(v) == [tag |-> "ok", v |-> v]
Err(e) == [tag |-> "err", e |-> e]
Panicked == [tag |-> "panic"]

----------------------------------------------------------------------------
(* src/network.rs: list_dns_servers. *)

\* The socket addresses a configuration can name.  An IPv6 address is the
\* text std prints for it, cut into chunks at its colons.
SocketAddrs ==
    { [v |-> 4, ip |-> <<"1.1.1.1">>, port |-> 53],
      [v |-> 4, ip |-> <<"8.8.8.8">>, port |-> 53],
      [v |-> 6, ip |-> <<"2001", ":", "db8", ":", ":", "1">>, port |-> 53] }

NameServerConfigs == {[socket_addr |-> a] : a \in SocketAddrs}

\* What system_conf::read_system_conf() can give: a failure, or a
\* configuration with its name_servers().
ReadErrors == {"No such file or directory (os error 2)"}

SystemConfs ==
    {Err(e) : e \in ReadErrors}
      \cup {Ok([name_servers |-> ns]) : ns \in SeqsUpTo(NameServerConfigs, MaxNs)}

\* SocketAddr::to_string: "ip:port" for IPv4, "[ip]:port" for IPv6.
socket_addr_to_string(a) ==
    IF a.v = 4 THEN a.ip \o <<":", Dec(a.port)>>
    ELSE <<"[">> \o a.ip \o <<"]", ":", Dec(a.port)>>

\* .splitn(2, ':').next().unwrap(): the text before the first ':' (all of it
\* when there is none).
RECURSIVE splitn_first(_)
splitn_first(chunks) ==
    IF chunks = <<>> \/ Head(chunks) = ":" THEN <<>>
    ELSE <<Head(chunks)>> \o splitn_first(Tail(chunks))

\* Vec::dedup: removes consecutive repeated elements.
RECURSIVE dedup(_)
dedup(v) ==
    IF Len(v) < 2 THEN v
    ELSE IF v[Len(v)] = v[Len(v) - 1] THEN dedup(SubSeq(v, 1, Len(v) - 1))
    ELSE Append(dedup(SubSeq(v, 1, Len(v) - 1)), v[Len(v)])

\* The closure of the map: one nameserver's entry.
nameserver_entry(ns) == Concat(splitn_first(socket_addr_to_string(ns.socket_addr)))

list_dns_servers(conf) ==
    IF conf.tag = "err" THEN Err(conf.e)
    ELSE Ok(dedup([i \in DOMAIN conf.v.name_servers |->
                      nameserver_entry(conf.v.name_servers[i])]))

----------------------------------------------------------------------------
(* src/datetime.rs: date, Date. *)

\* Readings of the local clock: what %A, %d, %B, %Y and %U are computed from.
Clock ==
    { [weekday |-> "Saturday", day |-> 8, month |-> "April", year |-> 2023, week |-> 14],
      [weekday |-> "Sunday", day |-> 1, month |-> "January", year |-> 2023, week |-> 1],
      [weekday |-> "Tuesday", day |-> 31, month |-> "December", year |-> 2024, week |-> 52] }

\* impl From<DateTime<Local>> for Date
date_from(dt) ==
    [ day_name |-> dt.weekday,
      day_number |-> parse_digits(FormatPadded(dt.day, 2)),
      month_name |-> dt.month,
      year |-> parse_digits(FormatPadded(dt.year, 4)),
      week_number |-> parse_digits(FormatPadded(dt.week, 2)) ]

date(now) == Ok(date_from(now))

\* Date_fmt with the day written as chrono's %d writes it, two digits wide.
Date_fmt_padded(d) ==
    << Val(d.day_name, "plain"), Lit(", "),
       Val((IF d.day_number < 10 THEN "0" ELSE "") \o Dec(d.day_number), "plain"),
       Lit(" "), Val(d.month_name, "plain"), Lit(", "), Val(Dec(d.year), "plain"),
       Lit(", week "), Val(Dec(d.week_number), "plain") >>

\* impl Display for Date: four write! calls.
Date_fmt(d) ==
    <<Val(d.day_name, "plain")>>
      \o <<Lit(", "), Val(Dec(d.day_number), "plain"), Lit(" "), Val(d.month_name, "plain")>>
      \o <<Lit(", "), Val(Dec(d.year), "plain")>>
      \o <<Lit(", week "), Val(Dec(d.week_number), "plain")>>

\* #[derive(Serialize)] struct Date: the fields in declaration order.
Date_serialize(d) ==
    JMap(<< Entry("day_name", JStr(d.day_name)),
            Entry("day_number", JNum(d.day_number)),
            Entry("month_name", JStr(d.month_name)),
            Entry("year", JNum(d.year)),
            Entry("week_number", JNum(d.week_number)) >>)

----------------------------------------------------------------------------
(* datetime::time and datetime::dateTime, Time and Datetime: main.rs calls *)
(* them, src/datetime.rs does not hold them.                               *)

ClockReadings ==
    { [time |-> "20:20:2", offset |-> "UTC +02:00", deviation |-> "0.0672"] }

ClockErrors == {"the clock query failed"}

TimeOutcomes == {Ok(t) : t \in ClockReadings} \cup {Err(e) : e \in ClockErrors}

time(reading) == reading

dateTime(now, reading) ==
    IF reading.tag = "err" THEN reading
    ELSE Ok([date |-> date_from(now), time |-> reading.v])

Time_fmt(t) ==
    << Val(t.time, "plain"), Lit(" "), Val(t.offset, "plain"), Lit(" +-"),
       Val(t.deviation, "plain"), Lit(" seconds") >>

Time_serialize(t) ==
    JMap(<< Entry("time", JStr(t.time)), Entry("offset", JStr(t.offset)),
            Entry("deviation", JStr(t.deviation)) >>)

Datetime_fmt(dt) == Date_fmt(dt.date) \o <<Lit(" ")>> \o Time_fmt(dt.time)

Datetime_serialize(dt) ==
    JMap(<< Entry("date", Date_serialize(dt.date)),
            Entry("time", Time_serialize(dt.time)) >>)

----------------------------------------------------------------------------
(* src/output.rs: Named, NamedKind, create_named. *)

\* The variants enum Named and enum NamedKind declare.
NamedKind == {"Hostname", "Username", "DeviceName"}

\* The value no arm of a match produces: output.rs declares no variant for
\* the kind.
NoVariant == [variant |-> Undefined, value |-> Undefined]

\* create_named: awaits the producer once and wraps its string.
create_named(value, data_type) ==
    CASE data_type = "Hostname" -> Ok([variant |-> "Hostname", value |-> value])
      [] data_type = "Username" -> Ok([variant |-> "Username", value |-> value])
      [] data_type = "DeviceName" -> Ok([variant |-> "DeviceName", value |-> value])
      [] OTHER -> Ok(NoVariant)

\* Named::value
Named_value(n) == IF n.variant \in NamedKind THEN n.value ELSE Undefined

\* impl Display for Named
Named_fmt(n) == <<Val(Named_value(n), "plain")>>

\* impl Serialize for Named: serialize_map(Some(1)), one serialize_entry.
Named_serialize(n) ==
    CASE n.variant = "Hostname" -> JMap(<<Entry("hostname", JStr(n.value))>>)
      [] n.variant = "Username" -> JMap(<<Entry("username", JStr(n.value))>>)
      [] n.variant = "DeviceName" -> JMap(<<Entry("device_name", JStr(n.value))>>)
      [] OTHER -> JUndefined

----------------------------------------------------------------------------
(* src/system.rs: the Named probes, cpus, Cpu. *)

\* What whoami returns.
WhoamiStrings == {"box", "ada lovelace", ""}

hostname(s) == create_named(s, "Hostname")
username(s) == create_named(s, "Username")
device_name(s) == create_named(s, "DeviceName")
os(s) == create_named(s, "Os")
architecture(s) == create_named(s, "Architecture")

\* The entries System::cpus() can hold.
CpuEntries == { [brand |-> "Ryzen 7", frequency |-> 3600],
                [brand |-> "", frequency |-> 0] }

CpuLists == SeqsUpTo(CpuEntries, MaxCpus)

\* cpus: cpus.get(0).unwrap() panics on an empty list.
cpus(list) ==
    IF list = <<>> THEN Panicked
    ELSE Ok([brand |-> list[1].brand, core_count |-> Len(list),
             frequency |-> list[1].frequency])

\* impl Display for Cpu
Cpu_fmt(c) ==
    << Val(c.brand, "bold"), Lit(", "), Val(Dec(c.core_count), "cyan"),
       Lit(" cores running at "), Val(Dec(c.frequency), "green"), Lit(" GHz") >>

\* Cpu_serialize with the brand serialized as Display styles it.
Cpu_serialize_styled(c) ==
    JMap(<< Entry("brand", JStr(Styled(c.brand, "bold", colorize))),
            Entry("core_count", JNum(c.core_count)),
            Entry("frequency", JNum(c.frequency)) >>)

\* #[derive(Serialize)] struct Cpu
Cpu_serialize(c) ==
    JMap(<< Entry("brand", JStr(c.brand)), Entry("core_count", JNum(c.core_count)),
            Entry("frequency", JNum(c.frequency)) >>)

----------------------------------------------------------------------------
(* src/main.rs: Commands, OutputFormat, CommandResult and its projections. *)

Commands == {"Date", "Time", "Datetime", "Dns", "Hostname", "Username",
             "DeviceName", "Os", "Architecture", "Cpu"}

NamedCommands == {"Hostname", "Username", "DeviceName", "Os", "Architecture"}

OutputFormat == {"Json", "Text"}

\* The with_context phrase of each arm of the match.
ContextPhrase(cmd) ==
    CASE cmd = "Date" -> "looking up the system's date failed"
      [] cmd = "Time" -> "looking up the system's time failed"
      [] cmd = "Datetime" -> "looking up the system's datetime failed"
      [] cmd = "Dns" -> "listing the system's dns servers failed"
      [] cmd = "Hostname" -> "looking up the system's hostname failed"
      [] cmd = "Username" -> "looking up the user's username failed"
      [] cmd = "DeviceName" -> "looking up the systems' device name failed"
      [] cmd = "Os" -> "looking up the system's OS name failed"
      [] cmd = "Architecture" -> "looking up the CPU's architecture fialed"
      [] cmd = "Cpu" -> "looking up the system's CPU information failed"

\* enum CommandResult: one variant per command, carrying the probe's value.
CommandResult(cmd, v) == [variant |-> cmd, v |-> v]

NoResult == [variant |-> "None"]

\* impl Display for CommandResult, as the pieces written to the Formatter.
CommandResult_fmt(r) ==
    CASE r.variant = "Date" -> Date_fmt(r.v)
      [] r.variant = "Time" -> Time_fmt(r.v)
      [] r.variant = "Datetime" -> Datetime_fmt(r.v)
      [] r.variant = "Dns" -> join_fmt(r.v, "\n")
      [] r.variant \in NamedCommands -> Named_fmt(r.v)
      [] r.variant = "Cpu" -> Cpu_fmt(r.v)

\* impl serde::Serialize for CommandResult
CommandResult_serialize(r) ==
    CASE r.variant = "Date" -> Date_serialize(r.v)
      [] r.variant = "Time" -> Time_serialize(r.v)
      [] r.variant = "Datetime" -> Datetime_serialize(r.v)
      [] r.variant = "Dns" -> JSeq([i \in DOMAIN r.v |-> JStr(r.v[i])])
      [] r.variant \in NamedCommands -> Named_serialize(r.v)
      [] r.variant = "Cpu" -> Cpu_serialize(r.v)

\* format!("{}", result)
to_text(r, on) == Flatten(CommandResult_fmt(r), on)

\* What the Rust runtime prints when main returns Err: "Error: {:?}" of the
\* anyhow error, its context first and the cause chain after it.
ErrorReport(context, cause) ==
    "Error: " \o context \o "\n\nCaused by:\n    " \o cause \o "\n"

\* What a panic prints: the default hook's message, or human_panic's in a
\* release build.
PanicReports ==
    { "thread main panicked: called Option::unwrap() on a None value\n",
      "Well, this is embarrassing.\nwhat had a problem and crashed.\n" }

----------------------------------------------------------------------------
(* src/storage.rs: list_disks, DiskInfo. *)

\* A disk's name is an OsStr: to_str() gives None when it is not UTF-8.
DiskNames == { [utf8 |-> TRUE, s |-> "sda"], [utf8 |-> TRUE, s |-> "sdb"],
               [utf8 |-> FALSE, s |-> "<not utf-8>"] }

\* Debug of sysinfo's DiskType.
DiskTypes == {"SSD"}

\* What sysinfo reports of one disk.
OsDisks ==
    [name : DiskNames, type_ : DiskTypes, total_space : 0..MaxBytes,
     available_space : 0..MaxBytes]

\* Itertools::unique_by(|disk| disk.name()): the first disk of each name.
unique_by_name(disks) ==
    LET keep == {i \in DOMAIN disks : \A j \in 1..(i - 1) : disks[j].name # disks[i].name}
        F[i \in 0..Len(disks)] ==
            IF i = 0 THEN <<>>
            ELSE IF i \in keep THEN Append(F[i - 1], disks[i]) ELSE F[i - 1]
    IN  F[Len(disks)]

\* disk_info with the two sizes taken from each other's getter.
disk_info_swapped(disk) ==
    IF ~disk.name.utf8 THEN Err("unknown")
    ELSE Ok([name |-> disk.name.s, type_ |-> disk.type_,
             total_space |-> disk.available_space,
             free_space |-> disk.total_space])

\* The closure of the map: Err("unknown") for a name that is not UTF-8.
disk_info(disk) ==
    IF ~disk.name.utf8 THEN Err("unknown")
    ELSE Ok([name |-> disk.name.s, type_ |-> disk.type_,
             total_space |-> disk.total_space,
             free_space |-> disk.available_space])

\* collect::<Result<Vec<_>>>(): the first Err, or every Ok value in order.
collect_results(rs) ==
    IF \E i \in DOMAIN rs : rs[i].tag = "err"
      THEN rs[CHOOSE i \in DOMAIN rs :
                 rs[i].tag = "err" /\ \A j \in 1..(i - 1) : rs[j].tag = "ok"]
      ELSE Ok([i \in DOMAIN rs |-> rs[i].v])

list_disks(disks) ==
    LET unique == unique_by_name(disks)
    IN  collect_results([i \in DOMAIN unique |-> disk_info(unique[i])])

\* crate::format::human_readable_size: src/ does not hold it.
human_readable_size(n) == Dec(n) \o " B"

\* (free as f64 / total as f64 * 100.0).round(): 0/0 is NaN, x/0 is
\* infinite, round goes half away from zero.  The quotient is exact for the
\* sizes of the model.
F64(n) == [class |-> "num", n |-> n]
F64NaN == [class |-> "nan", n |-> 0]
F64Inf == [class |-> "inf", n |-> 0]

free_space_percentage(free, total) ==
    IF total = 0 THEN (IF free = 0 THEN F64NaN ELSE F64Inf)
    ELSE F64((200 * free + total) \div (2 * total))

\* f64::to_string
f64_to_string(x) ==
    CASE x.class = "nan" -> "NaN"
      [] x.class = "inf" -> "inf"
      [] x.class = "num" -> Dec(x.n)

\* x < bound on f64: false for NaN and for infinity.
f64_lt(x, bound) == x.class = "num" /\ x.n < bound

\* impl Display for DiskInfo
DiskInfo_fmt(d) ==
    LET pct == free_space_percentage(d.free_space, d.total_space)
        color == IF f64_lt(pct, 10) THEN "red"
                 ELSE IF f64_lt(pct, 20) THEN "yellow" ELSE "green"
    IN  << Val(d.name, "cyan_bold"), Lit(", "), Val(d.type_, "bright_white"),
           Lit(", "), Val(human_readable_size(d.free_space), color),
           Lit(" free of "), Val(human_readable_size(d.total_space), "plain"),
           Lit(" ("), Val(f64_to_string(pct), color), Lit("% free)") >>

\* #[derive(Serialize)] struct DiskInfo, with its renames.
DiskInfo_serialize(d) ==
    JMap(<< Entry("name", JStr(d.name)), Entry("type", JStr(d.type_)),
            Entry("total_space_bytes", JNum(d.total_space)),
            Entry("free_space_bytes", JNum(d.free_space)) >>)

----------------------------------------------------------------------------
(* src/main.rs: main, one invocation after another. *)

NoProbe == [cmd |-> "None"]
NoRun == [command |-> "None"]

Call(kind, what) == [call |-> kind, what |-> what]

\* Cli::parse(): the subcommand, if any, and the --format flag.
Parse ==
    /\ pc = "start"
    /\ \E c \in Commands \cup {"None"}, f \in OutputFormat, on \in BOOLEAN :
         /\ command' = c
         /\ format' = f
         /\ colorize' = on
    /\ pc' = "dispatch"
    /\ UNCHANGED <<probed, outcome, result, events, stdout, stderr, exit_code,
                   runs, prev>>
    /\ UNCHANGED diskVars

\* One arm of the match: the probe is awaited once; Ok is wrapped in the
\* variant, Err gets the arm's context and leaves main through `?`, a panic
\* unwinds out of main.
Await(cmd, raw, r) ==
    /\ pc = "dispatch"
    /\ command = cmd
    /\ probed' = [cmd |-> cmd, raw |-> raw]
    /\ events' = Append(events, Call("probe", cmd))
    /\ outcome' = r.tag
    /\ IF r.tag = "ok"
         THEN /\ result' = CommandResult(cmd, r.v)
              /\ pc' = "render"
              /\ UNCHANGED <<stderr, exit_code>>
         ELSE IF r.tag = "err"
         THEN /\ stderr' = Append(stderr, ErrorReport(ContextPhrase(cmd), r.e))
              /\ exit_code' = 1
              /\ pc' = "done"
              /\ UNCHANGED result
         ELSE /\ \E report \in PanicReports : stderr' = Append(stderr, report)
              /\ exit_code' = 101
              /\ pc' = "done"
              /\ UNCHANGED result
    /\ UNCHANGED <<command, format, colorize, stdout, runs, prev>>
    /\ UNCHANGED diskVars

ProbeDate == \E now \in Clock : Await("Date", now, date(now))

ProbeTime == \E reading \in TimeOutcomes : Await("Time", reading, time(reading))

ProbeDatetime ==
    \E now \in Clock, reading \in TimeOutcomes :
        Await("Datetime", [now |-> now, reading |-> reading], dateTime(now, reading))

ProbeDns == \E conf \in SystemConfs : Await("Dns", conf, list_dns_servers(conf))

ProbeHostname == \E s \in WhoamiStrings : Await("Hostname", s, hostname(s))

ProbeUsername == \E s \in WhoamiStrings : Await("Username", s, username(s))

ProbeDeviceName == \E s \in WhoamiStrings : Await("DeviceName", s, device_name(s))

ProbeOs == \E s \in WhoamiStrings : Await("Os", s, os(s))

ProbeArchitecture == \E s \in WhoamiStrings : Await("Architecture", s, architecture(s))

ProbeCpu == \E list \in CpuLists : Await("Cpu", list, cpus(list))

\* RenderJson falling through into the text arm: the result is printed twice.
RenderJson_twice ==
    /\ pc = "render"
    /\ format = "Json"
    /\ events' = events \o <<Call("render", "Json"), Call("render", "Text")>>
    /\ stdout' = stdout \o << to_string_pretty(CommandResult_serialize(result)) \o "\n",
                              to_text(result, colorize) \o "\n" >>
    /\ exit_code' = 0
    /\ pc' = "done"
    /\ UNCHANGED <<command, format, colorize, probed, outcome, result, stderr,
                   runs, prev>>
    /\ UNCHANGED diskVars

\* OutputFormat::Json => to_string_pretty, println!; then Ok(()).  Encoding
\* to a String does not fail for the values a CommandResult holds (string
\* keys, strings, integers), so the `?` after it never leaves main.
RenderJson ==
    /\ pc = "render"
    /\ format = "Json"
    /\ events' = Append(events, Call("render", "Json"))
    /\ stdout' = Append(stdout, to_string_pretty(CommandResult_serialize(result)) \o "\n")
    /\ exit_code' = 0
    /\ pc' = "done"
    /\ UNCHANGED <<command, format, colorize, probed, outcome, result, stderr,
                   runs, prev>>
    /\ UNCHANGED diskVars

\* OutputFormat::Text => println!("{}", result); then Ok(()).
RenderText ==
    /\ pc = "render"
    /\ format = "Text"
    /\ events' = Append(events, Call("render", "Text"))
    /\ stdout' = Append(stdout, to_text(result, colorize) \o "\n")
    /\ exit_code' = 0
    /\ pc' = "done"
    /\ UNCHANGED <<command, format, colorize, probed, outcome, result, stderr,
                   runs, prev>>
    /\ UNCHANGED diskVars

\* NoCommand rendering the absent result: json prints null.
NoCommand_prints ==
    /\ pc = "dispatch"
    /\ command = "None"
    /\ stdout' = IF format = "Json" THEN Append(stdout, "null\n") ELSE stdout
    /\ exit_code' = 0
    /\ pc' = "done"
    /\ UNCHANGED <<command, format, colorize, probed, outcome, result, events,
                   stderr, runs, prev>>
    /\ UNCHANGED diskVars

\* cli.command is None: the if let is skipped; Ok(()).
NoCommand ==
    /\ pc = "dispatch"
    /\ command = "None"
    /\ exit_code' = 0
    /\ pc' = "done"
    /\ UNCHANGED <<command, format, colorize, probed, outcome, result, events,
                   stdout, stderr, runs, prev>>
    /\ UNCHANGED diskVars

\* The program is started again: a fresh process.  prev keeps the run that
\* just ended when it printed json.
Invoke ==
    /\ pc = "done"
    /\ runs < MaxRuns
    /\ runs' = runs + 1
    /\ prev' = IF format = "Json" /\ outcome = "ok"
                 THEN [command |-> command, probed |-> probed, stdout |-> stdout]
                 ELSE NoRun
    /\ pc' = "start"
    /\ command' = "None"
    /\ format' = "Text"
    /\ colorize' = FALSE
    /\ probed' = NoProbe
    /\ outcome' = "none"
    /\ result' = NoResult
    /\ events' = <<>>
    /\ stdout' = <<>>
    /\ stderr' = <<>>
    /\ exit_code' = -1
    /\ UNCHANGED diskVars

NoDisks == [tag |-> "none"]

Init ==
    /\ pc = "start"
    /\ command = "None"
    /\ format = "Text"
    /\ colorize = FALSE
    /\ probed = NoProbe
    /\ outcome = "none"
    /\ result = NoResult
    /\ events = <<>>
    /\ stdout = <<>>
    /\ stderr = <<>>
    /\ exit_code = -1
    /\ runs = 1
    /\ prev = NoRun
    /\ os_disks = <<>>
    /\ disk_out = NoDisks
    /\ disk_text = <<>>

Next ==
    \/ Parse
    \/ ProbeDate
    \/ ProbeTime
    \/ ProbeDatetime
    \/ ProbeDns
    \/ ProbeHostname
    \/ ProbeUsername
    \/ ProbeDeviceName
    \/ ProbeOs
    \/ ProbeArchitecture
    \/ ProbeCpu
    \/ RenderJson
    \/ RenderText
    \/ NoCommand
    \/ Invoke

Spec == Init /\ [][Next]_vars

----------------------------------------------------------------------------
(* src/storage.rs exercised on its own: main.rs has no disks command. *)

InitDisk ==
    /\ pc = "start"
    /\ command = "None"
    /\ format = "Text"
    /\ colorize \in BOOLEAN
    /\ probed = NoProbe
    /\ outcome = "none"
    /\ result = NoResult
    /\ events = <<>>
    /\ stdout = <<>>
    /\ stderr = <<>>
    /\ exit_code = -1
    /\ runs = 1
    /\ prev = NoRun
    /\ os_disks \in SeqsUpTo(OsDisks, MaxDisks)
    /\ disk_out = NoDisks
    /\ disk_text = <<>>

\* list_disks().await
ListDisks ==
    /\ disk_out = NoDisks
    /\ disk_out' = list_disks(os_disks)
    /\ UNCHANGED <<os_disks, disk_text>>
    /\ UNCHANGED procVars

\* The next DiskInfo of the list is formatted with Display.
RenderDisk ==
    /\ disk_out.tag = "ok"
    /\ Len(disk_text) < Len(disk_out.v)
    /\ disk_text' = Append(disk_text, DiskInfo_fmt(disk_out.v[Len(disk_text) + 1]))
    /\ UNCHANGED <<os_disks, disk_out>>
    /\ UNCHANGED procVars

NextDisk == ListDisks \/ RenderDisk

SpecDisk == InitDisk /\ [][NextDisk]_vars

----------------------------------------------------------------------------
(* The claims. *)

NoDuplicates(v) == \A i, j \in DOMAIN v : v[i] = v[j] => i = j

\* The elements of v, each at its first occurrence only.
FirstOccurrences(v) ==
    LET F[i \in 0..Len(v)] ==
            IF i = 0 THEN <<>>
            ELSE IF \E j \in 1..(i - 1) : v[j] = v[i] THEN F[i - 1]
            ELSE Append(F[i - 1], v[i])
    IN  F[Len(v)]

\* The entries of the configured nameservers before deduplication.
ConfiguredEntries(conf) ==
    [i \in DOMAIN conf.v.name_servers |-> nameserver_entry(conf.v.name_servers[i])]

\* C1: whenever list_dns_servers returns a list, no value occurs twice in
\* it (adjacent in the input or not) and its entries are the input's, in
\* the order of their first occurrence.
C1_DnsDeduplicatedInOrder ==
    (probed.cmd = "Dns" /\ outcome = "ok") =>
        /\ NoDuplicates(result.v)
        /\ result.v = FirstOccurrences(ConfiguredEntries(probed.raw))

\* The description of the failure the probe met.
FailureOf(p) ==
    CASE p.cmd = "Dns" -> p.raw.e
      [] p.cmd = "Time" -> p.raw.e
      [] p.cmd = "Datetime" -> p.raw.reading.e
      [] p.cmd = "Cpu" -> "the system reports no CPU entries"

\* C2: when the probe of the selected command has failed, the run has ended
\* with one error on the error stream that is the command's context phrase
\* followed by the failure's description, nothing was written to the success
\* output, the exit code is not zero, and the probe was called once.
C2_ProbeFailurePropagated ==
    (outcome \in {"err", "panic"}) =>
        /\ pc = "done"
        /\ stderr = <<ErrorReport(ContextPhrase(command), FailureOf(probed))>>
        /\ stdout = <<>>
        /\ exit_code > 0
        /\ events = <<Call("probe", command)>>
        /\ result = NoResult

\* C3: with no command selected, whatever the format flag, no probe is
\* called, no renderer runs, nothing is written, and the run ends with exit
\* code 0.
C3_NoCommandIsNoOp ==
    (pc \in {"dispatch", "done"} /\ command = "None") =>
        /\ events = <<>>
        /\ stdout = <<>>
        /\ stderr = <<>>
        /\ outcome = "none"
        /\ result = NoResult
        /\ pc = "done" => exit_code = 0

C3_Witness ==
    /\ pc = "done"
    /\ command = "None"
    /\ format = "Json"
    /\ exit_code = 0

\* What the renderer the format flag selects prints for a result.
Rendering(fmt, r, on) ==
    IF fmt = "Json" THEN to_string_pretty(CommandResult_serialize(r)) \o "\n"
    ELSE to_text(r, on) \o "\n"

\* C4: in a run with a selected command, before the probe nothing has been
\* called; after it exactly the command's probe has been called, once; when
\* it succeeded, the run ends after exactly one more call, the renderer of
\* the format flag, with that rendering as the only output; when it failed,
\* no renderer runs and nothing is printed.
C4_OneProbeThenOneRender ==
    (command \in Commands) =>
        /\ pc = "dispatch" => events = <<>> /\ stdout = <<>>
        /\ pc = "render" =>
              /\ events = <<Call("probe", command)>>
              /\ outcome = "ok"
              /\ result.variant = command
              /\ stdout = <<>>
        /\ (pc = "done" /\ outcome = "ok") =>
              /\ events = <<Call("probe", command), Call("render", format)>>
              /\ stdout = <<Rendering(format, result, colorize)>>
              /\ stderr = <<>>
              /\ exit_code = 0
        /\ (pc = "done" /\ outcome # "ok") =>
              /\ events = <<Call("probe", command)>>
              /\ stdout = <<>>

C4_Witness ==
    /\ pc = "done"
    /\ command = "Cpu"
    /\ format = "Json"
    /\ outcome = "ok"
    /\ events = <<Call("probe", "Cpu"), Call("render", "Json")>>
    /\ Len(stdout) = 1

\* The nearest integer to 100 * free / total, halves going up.
NearestPercent(free, total) ==
    CHOOSE n \in 0..(100 * free + 1) :
        /\ 2 * n * total <= 200 * free + total
        /\ 200 * free + total < 2 * (n + 1) * total

\* The percentage the spec gives a DiskInfo: 0 when the total is 0.
ClaimedPercentage(free, total) ==
    IF total = 0 THEN 0 ELSE NearestPercent(free, total)

\* The percentage a Display line shows: the piece before "% free)".
ShownPercentage(segs) == segs[Len(segs) - 1].text

\* C5: the text of every DiskInfo shows round(free/total*100) as its free
\* percentage, and 0 when total_space is 0.
C5_DiskPercentage ==
    \A i \in DOMAIN disk_text :
        ShownPercentage(disk_text[i]) =
            Dec(ClaimedPercentage(disk_out.v[i].free_space, disk_out.v[i].total_space))

\* The name of a scalar fact kind in structured output.
KindName(cmd) ==
    CASE cmd = "Hostname" -> "hostname"
      [] cmd = "Username" -> "username"
      [] cmd = "DeviceName" -> "device_name"
      [] cmd = "Os" -> "os"
      [] cmd = "Architecture" -> "architecture"

\* C6: for each of the five scalar fact kinds and every string the producer
\* yields, the wrapper's text is the bare string and its structured form is
\* a mapping of exactly one entry, the kind's name to the unchanged string.
C6_NamedWrapper ==
    (probed.cmd \in NamedCommands /\ outcome = "ok") =>
        /\ to_text(result, colorize) = probed.raw
        /\ CommandResult_serialize(result)
              = JMap(<<Entry(KindName(probed.cmd), JStr(probed.raw))>>)

\* The values a text projection presents.
TextValues(segs) == {segs[i].text : i \in {j \in DOMAIN segs : segs[j].kind = "val"}}

\* The values a structured projection presents, as text.
RECURSIVE JsonValues(_)
JsonValues(v) ==
    CASE v.t = "str" -> {v.s}
      [] v.t = "num" -> {Dec(v.n)}
      [] v.t = "map" -> UNION {JsonValues(v.entries[i].v) : i \in DOMAIN v.entries}
      [] v.t = "seq" -> UNION {JsonValues(v.items[i]) : i \in DOMAIN v.items}
      [] v.t = "undefined" -> {Undefined}

\* C7: for the CommandResult of every command, the text projection and the
\* structured projection are both defined and present the same values.
C7_ProjectionsAgree ==
    (outcome = "ok") =>
        /\ Undefined \notin TextValues(CommandResult_fmt(result))
        /\ Undefined \notin JsonValues(CommandResult_serialize(result))
        /\ TextValues(CommandResult_fmt(result))
              = JsonValues(CommandResult_serialize(result))

\* C8: the text printed for a Date is day_name, ", ", day_number, " ",
\* month_name, ", ", year, ", week ", week_number, the numbers unpadded;
\* Saturday the 8th of April 2023, in week 14, prints
\* "Saturday, 8 April, 2023, week 14".
C8_DateText ==
    (pc = "done" /\ command = "Date" /\ format = "Text") =>
        /\ stdout = << result.v.day_name \o ", " \o Dec(result.v.day_number) \o " "
                         \o result.v.month_name \o ", " \o Dec(result.v.year)
                         \o ", week " \o Dec(result.v.week_number) \o "\n" >>
        /\ (probed.raw.day = 8 /\ probed.raw.year = 2023)
              => stdout = <<"Saturday, 8 April, 2023, week 14\n">>
        /\ (probed.raw.day = 1 /\ probed.raw.year = 2023)
              => stdout = <<"Sunday, 1 January, 2023, week 1\n">>

C8_Witness ==
    /\ pc = "done"
    /\ command = "Date"
    /\ format = "Text"
    /\ result.v = [day_name |-> "Saturday", day_number |-> 8, month_name |-> "April",
                   year |-> 2023, week_number |-> 14]
    /\ stdout = <<"Saturday, 8 April, 2023, week 14\n">>

\* C9: a json run of a command whose probe read what the previous json run
\* of the same command read prints what that run printed.
C9_JsonDeterministic ==
    (pc = "done" /\ outcome = "ok" /\ format = "Json"
        /\ prev.command = command /\ prev.probed = probed)
      => stdout = prev.stdout

C9_Witness ==
    /\ pc = "done"
    /\ outcome = "ok"
    /\ format = "Json"
    /\ command = "Cpu"
    /\ prev.command = command
    /\ prev.probed = probed
    /\ colorize
    /\ stdout = prev.stdout

C11_NoCpuEntriesIsAnError ==
    (probed.cmd = "Cpu" /\ probed.raw = <<>>) =>
        /\ outcome = "err"
        /\ stderr \notin {<<report>> : report \in PanicReports}
        /\ stderr = << ErrorReport("looking up the system's CPU information failed",
                                   FailureOf(probed)) >>
        /\ exit_code = 1

\* The complete IP address of a nameserver, without its port.
CompleteIp(ns) == Concat(ns.socket_addr.ip)

\* C12: the entries list_dns_servers returns are the complete IP addresses
\* of the configured nameservers, port removed, for IPv4 and for IPv6 alike
\* (consecutive repeats dropped as Vec::dedup drops them).
C12_EntriesAreCompleteIps ==
    (probed.cmd = "Dns" /\ outcome = "ok") =>
        result.v = dedup([i \in DOMAIN probed.raw.v.name_servers |->
                             CompleteIp(probed.raw.v.name_servers[i])])

====
